---- MODULE Spec2Model ----
(***************************************************************************)
(* Model of the schema-driven training/export scripts:                     *)
(*   generate_schema.py            infer_schema, main                      *)
(*   src/train_lightgbm.py         load_and_preprocess, export_onnx, main  *)
(*   src/train_random_forest.py    load_and_preprocess, export_onnx, main  *)
(*   train_random_forest.py        the older random-forest script          *)
(* A CSV cell is its text; the empty text is a missing value.  pandas is   *)
(* modelled as pandas 2.x behaves on object/int64/float64 columns.         *)
(***************************************************************************)
EXTENDS Integers, Sequences, FiniteSets, TLC

(* ------------------------------ bounds -------------------------------- *)
\* rows of a dataset
MaxRows == 3
\* entries of a schema's numeric (categorical) list
MaxList == 2

(* --------------------------- program constants ------------------------ *)
\* target_opset of both converter calls
TargetOpset == 15

(* ------------------------------ helpers ------------------------------- *)
SeqsUpTo(S, n) == UNION {[1..k -> S] : k \in 0..n}

Range(s) == {s[i] : i \in DOMAIN s}

Max(a, b) == IF a >= b THEN a ELSE b

NoDup(s) == \A i, j \in DOMAIN s : s[i] = s[j] => i = j

\* [c for c in s if P(c)]
RECURSIVE Filter(_, _)
Filter(s, keep) ==
    IF s = <<>> THEN <<>>
    ELSE IF Head(s) \in keep THEN <<Head(s)>> \o Filter(Tail(s), keep)
    ELSE Filter(Tail(s), keep)

(* ------------------------------ CSV cells ----------------------------- *)
\* the text of a cell; "" is an empty (missing) field
Cells == {"", "0", "1", "2", "x"}

NumCells == {"0", "1", "2"}

NumOf(c) == CASE c = "0" -> 0 [] c = "1" -> 1 [] c = "2" -> 2

\* float NaN in a numeric column (numbers of the model are >= 0)
NaN == -1

\* the missing marker of an object column
NA == "<NA>"

(* pd.read_csv: the dtype a column of cells is parsed to *)
DType(cells) ==
    IF Len(cells) = 0 THEN "object"
    ELSE IF \E i \in DOMAIN cells : cells[i] \notin NumCells \cup {""} THEN "object"
    ELSE IF \E i \in DOMAIN cells : cells[i] = "" THEN "float64"
    ELSE "int64"

(* pd.api.types.is_numeric_dtype *)
is_numeric_dtype(cells) == DType(cells) \in {"int64", "float64"}

(* pd.to_numeric(errors="coerce"), numbers kept in halves (2 * value) so that
   the median of an even count is a number of the model *)
to_numeric(cells) ==
    [i \in DOMAIN cells |-> IF cells[i] \in NumCells THEN 2 * NumOf(cells[i]) ELSE NaN]

\* the sorted non-NaN values of a numeric column
RECURSIVE SortedNums(_)
SortedNums(S) ==
    IF S = {} THEN <<>>
    ELSE LET m == CHOOSE p \in S : \A q \in S : p[2] < q[2] \/ (p[2] = q[2] /\ p[1] <= q[1])
         IN <<m[2]>> \o SortedNums(S \ {m})

(* Series.median(): NaN skipped; NaN when nothing is left *)
median(col) ==
    LET s == SortedNums({<<i, col[i]>> : i \in {j \in DOMAIN col : col[j] # NaN}})
        n == Len(s)
    IN IF n = 0 THEN NaN
       ELSE IF n % 2 = 1 THEN s[(n + 1) \div 2]
       ELSE (s[n \div 2] + s[n \div 2 + 1]) \div 2

(* Series.fillna(v) of a numeric column *)
fillna_num(col, v) == [i \in DOMAIN col |-> IF col[i] = NaN THEN v ELSE col[i]]

(* Series.astype(str): str() of each parsed value; a missing value becomes
   the text "nan", a number of a float64 column prints with ".0" *)
astype_str(cells) ==
    LET dt == DType(cells)
    IN [i \in DOMAIN cells |->
          IF cells[i] = "" THEN "nan"
          ELSE IF dt = "float64" THEN cells[i] \o ".0"
          ELSE cells[i]]

(* Series.isnull().all() of a column of texts *)
isnull_all(col) == \A i \in DOMAIN col : col[i] = NA

(* Series.fillna(v) of a column of texts *)
fillna_str(col, v) == [i \in DOMAIN col |-> IF col[i] = NA THEN v ELSE col[i]]

\* the texts a stringified column can hold, ascending
SortedStrs == <<"", "0", "0.0", "1", "1.0", "2", "2.0", "nan", "x">>

StrRank(s) == CHOOSE k \in DOMAIN SortedStrs : SortedStrs[k] = s

Count(col, v) == Cardinality({i \in DOMAIN col : col[i] = v})

(* Series.mode(dropna=True)[0]: the most frequent non-missing text, the
   smallest of them on a tie *)
mode0(col) ==
    LET vals == Range(col) \ {NA}
        best == {v \in vals : \A w \in vals : Count(col, v) >= Count(col, w)}
    IN CHOOSE v \in best : \A w \in best : StrRank(v) <= StrRank(w)

(* ------------------------------ schema -------------------------------- *)
\* the three training scripts
Scripts == {"lightgbm", "random_forest", "random_forest_root"}

\* the scripts whose load_and_preprocess resolves the target's classes
ResolvingScripts == {"lightgbm", "random_forest"}

NumericEntry(c) == [name |-> c, impute |-> "median"]

CategoricalEntry(c) == [name |-> c, impute |-> "most_frequent", encode |-> "onehot"]

MkSchema(target, numeric, categorical) ==
    [target |-> target,
     numeric |-> [i \in DOMAIN numeric |-> NumericEntry(numeric[i])],
     categorical |-> [i \in DOMAIN categorical |-> CategoricalEntry(categorical[i])]]

\* [c["name"] for c in entries]
NamesOf(entries) == [i \in DOMAIN entries |-> entries[i].name]

(* ------------------------- load_and_preprocess ------------------------ *)
\* a failed call: the exception, and nothing returned
Raised(e) ==
    [ok |-> FALSE, err |-> e, columns |-> <<>>, num |-> <<>>, cat |-> <<>>,
     y |-> <<>>, numeric_cols |-> <<>>, categorical_cols |-> <<>>]

\* as feature_cols would be with the two lists the other way round
FeatureColsSwapped(numeric_cols, categorical_cols) == categorical_cols \o numeric_cols

\* feature_cols = numeric_cols + categorical_cols
FeatureCols(numeric_cols, categorical_cols) == numeric_cols \o categorical_cols

\* df[[target, *feature_cols]]: every label must be a column of df
Selectable(df, labels) == Range(labels) \subseteq Range(df.cols)

\* the numeric loop: to_numeric(coerce), then fillna(median)
ImputeNumeric(cells) ==
    LET col == to_numeric(cells)
    IN fillna_num(col, median(col))

\* the categorical loop: astype(str), then fillna("") or fillna(mode)
ImputeCategorical(cells) ==
    LET col == astype_str(cells)
    IN IF isnull_all(col) THEN fillna_str(col, "")
       ELSE fillna_str(col, mode0(col))

\* y_series.dropna().unique(): the distinct non-missing cells, first seen first
RECURSIVE Unique(_)
Unique(cells) ==
    IF cells = <<>> THEN <<>>
    ELSE LET n == Len(cells)
             front == Unique(SubSeq(cells, 1, n - 1))
         IN IF cells[n] = "" \/ cells[n] \in Range(front) THEN front
            ELSE Append(front, cells[n])

\* set(unique_vals) <= {0, 1}: a text cell of an object column equals no number
SubsetOfZeroOne(cells) ==
    \A u \in Range(Unique(cells)) :
        /\ DType(cells) # "object"
        /\ NumOf(u) \in {0, 1}

\* Series.astype(np.int64): fails on NaN and on an object column of texts
AsTypeInt64(cells) ==
    IF Len(cells) = 0 THEN [ok |-> TRUE, err |-> "", y |-> <<>>]
    ELSE IF DType(cells) = "int64"
    THEN [ok |-> TRUE, err |-> "", y |-> [i \in DOMAIN cells |-> NumOf(cells[i])]]
    ELSE [ok |-> FALSE, err |-> "ValueError: cannot cast to int64", y |-> <<>>]

IndexOf(s, v) == CHOOSE k \in DOMAIN s : s[k] = v

\* as the mapping would be over the sorted labels
MappingByRank(unique_vals, v) ==
    Cardinality({u \in Range(unique_vals) : StrRank(u) < StrRank(v)})

\* mapping = {val: idx for idx, val in enumerate(unique_vals)}
Mapping(unique_vals, v) == IndexOf(unique_vals, v) - 1

\* y_series.map(mapping).astype(np.int64)
MapTarget(cells) ==
    IF \E i \in DOMAIN cells : cells[i] = ""
    THEN [ok |-> FALSE, err |-> "ValueError: cannot cast to int64", y |-> <<>>]
    ELSE [ok |-> TRUE, err |-> "",
          y |-> [i \in DOMAIN cells |-> Mapping(Unique(cells), cells[i])]]

\* the class check of the two src/ scripts
TooManyClasses(cells) == Len(Unique(cells)) > 2

\* the target vector of a script
ResolveTarget(script, cells) ==
    IF script \in ResolvingScripts
    THEN IF TooManyClasses(cells)
         THEN [ok |-> FALSE, err |-> "ValueError: classes", y |-> <<>>]
         ELSE IF SubsetOfZeroOne(cells) THEN AsTypeInt64(cells)
         ELSE MapTarget(cells)
    ELSE AsTypeInt64(cells)

load_and_preprocess(script, df, schema) ==
    LET target == schema.target
        numeric_cols == NamesOf(schema.numeric)
        categorical_cols == NamesOf(schema.categorical)
        feature_cols == FeatureCols(numeric_cols, categorical_cols)
        labels == <<target>> \o feature_cols
    IN IF ~Selectable(df, labels) THEN Raised("KeyError")
       \* a label selected twice yields a frame where a series is expected
       ELSE IF ~NoDup(labels) THEN Raised("TypeError: duplicate label")
       ELSE LET yr == ResolveTarget(script, df.val[target])
            IN IF ~yr.ok THEN Raised(yr.err)
               ELSE [ok |-> TRUE, err |-> "",
                     columns |-> feature_cols,
                     num |-> [c \in Range(numeric_cols) |-> ImputeNumeric(df.val[c])],
                     cat |-> [c \in Range(categorical_cols) |-> ImputeCategorical(df.val[c])],
                     y |-> yr.y,
                     numeric_cols |-> numeric_cols,
                     categorical_cols |-> categorical_cols]

(* ---------------------------- infer_schema --------------------------- *)
\* as cols would be without the test on the target
CandidateColsKeepTarget(df, target, exclude) ==
    Filter(df.cols, Range(df.cols) \ exclude)

\* cols = [c for c in df.columns if c not in exclude and c != target]
CandidateCols(df, target, exclude) ==
    Filter(df.cols, Range(df.cols) \ (exclude \cup {target}))

infer_schema(df, target, exclude) ==
    LET cols == CandidateCols(df, target, exclude)
        numeric == Filter(cols, {c \in Range(cols) : is_numeric_dtype(df.val[c])})
        categorical == Filter(cols, {c \in Range(cols) : ~is_numeric_dtype(df.val[c])})
    IN MkSchema(target, numeric, categorical)

(* --------------------------- graph fragments -------------------------- *)
\* helper.make_opsetid
make_opsetid(domain, version) == [domain |-> domain, version |-> version]

NoFragment == [ir_version |-> 0, opset_import |-> <<>>, inputs |-> <<>>, outputs |-> <<>>]

\* lgb_input_name
lgb_input_name == "preprocessed"

\* the sole output of the converted ColumnTransformer
PreOutputName == "transformed_column"

\* the outputs of a converted classifier with zipmap off
ModelOutputs == <<"label", "probabilities">>

\* initial_type: numeric columns as float tensors, then categorical as string
InitialType(numeric_cols, categorical_cols) ==
    [i \in DOMAIN numeric_cols |-> [name |-> numeric_cols[i], type |-> "float"]]
    \o [i \in DOMAIN categorical_cols |-> [name |-> categorical_cols[i], type |-> "string"]]

\* convert_preprocess(preprocess, initial_types, target_opset): the versions
\* are the installed converter's
convert_preprocess(initial_type, ver) ==
    [ir_version |-> ver.ir, opset_import |-> ver.opset,
     inputs |-> initial_type, outputs |-> <<PreOutputName>>]

\* convert_lightgbm(lgb_model, initial_types=[(lgb_input_name, ...)], zipmap=False)
convert_lightgbm(input_name, ver) ==
    [ir_version |-> ver.ir, opset_import |-> ver.opset,
     inputs |-> <<[name |-> input_name, type |-> "float"]>>, outputs |-> ModelOutputs]

\* convert_sklearn(model, initial_types, options={"zipmap": False})
convert_sklearn(initial_type, ver) ==
    [ir_version |-> ver.ir, opset_import |-> ver.opset,
     inputs |-> initial_type, outputs |-> ModelOutputs]

\* as max_ir would be with min in place of max
MinIr(a, b) == IF a.ir_version <= b.ir_version THEN a.ir_version ELSE b.ir_version

\* max_ir = max(preprocess_onnx.ir_version, lgb_onnx.ir_version)
MaxIr(a, b) == Max(a.ir_version, b.ir_version)

\* get_version(model, domain): the first record of the domain, 0 without one
RECURSIVE get_version(_, _)
get_version(opset_import, domain) ==
    IF opset_import = <<>> THEN 0
    ELSE IF Head(opset_import).domain = domain THEN Head(opset_import).version
    ELSE get_version(Tail(opset_import), domain)

\* as set_version would be without the extend of a new record
set_version_no_insert(opset_import, domain, version) ==
    [k \in DOMAIN opset_import |->
        IF /\ opset_import[k].domain = domain
           /\ \A j \in 1..(k - 1) : opset_import[j].domain # domain
        THEN make_opsetid(domain, version)
        ELSE opset_import[k]]

\* as set_version would be without the test on the record's domain
set_version_any_domain(opset_import, domain, version) ==
    IF opset_import = <<>> THEN <<make_opsetid(domain, version)>>
    ELSE [opset_import EXCEPT ![1].version = version]

\* set_version(model, domain, version): the first record of the domain is
\* set, or a new record is appended
set_version(opset_import, domain, version) ==
    IF \E k \in DOMAIN opset_import : opset_import[k].domain = domain
    THEN LET k == CHOOSE k \in DOMAIN opset_import :
                      /\ opset_import[k].domain = domain
                      /\ \A j \in 1..(k - 1) : opset_import[j].domain # domain
         IN [opset_import EXCEPT ![k].version = version]
    ELSE Append(opset_import, make_opsetid(domain, version))

\* sync_default_opset: the default-domain version both fragments get
default_domain_version(model_a, model_b) ==
    Max(get_version(model_a.opset_import, ""), get_version(model_b.opset_import, ""))

\* the domains a fragment imports
DomainsOf(m) == {m.opset_import[k].domain : k \in DOMAIN m.opset_import}

\* onnx.compose.merge_models refuses two models of different IR versions or
\* of different opset versions for one domain
Mergeable(m1, m2) ==
    /\ m1.ir_version = m2.ir_version
    /\ \A d \in DomainsOf(m1) \cap DomainsOf(m2) :
           get_version(m1.opset_import, d) = get_version(m2.opset_import, d)

\* as the merge would be called without an io_map entry
IoMapNone(m1, input_name) == <<>>

\* io_map=[(preprocess_onnx.graph.output[0].name, lgb_input_name)]
IoMap(m1, input_name) == <<[from |-> m1.outputs[1], to |-> input_name]>>

\* merge_models(m1, m2, io_map): the inputs of m1 and the unmapped inputs of
\* m2, the unmapped outputs of m1 and the outputs of m2
merge_models(m1, m2, io_map) ==
    LET froms == {io_map[k].from : k \in DOMAIN io_map}
        tos == {io_map[k].to : k \in DOMAIN io_map}
        in2 == {m2.inputs[k] : k \in DOMAIN m2.inputs}
    IN [ir_version |-> m1.ir_version,
        opset_import |-> m1.opset_import
            \o Filter(m2.opset_import,
                      {o \in Range(m2.opset_import) : o.domain \notin DomainsOf(m1)}),
        inputs |-> m1.inputs \o Filter(m2.inputs, {x \in in2 : x.name \notin tos}),
        outputs |-> Filter(m1.outputs, Range(m1.outputs) \ froms) \o m2.outputs,
        io_map |-> io_map]

(* ------------------------------ inputs -------------------------------- *)
Names == {"t", "a", "b", "c"}

DefaultCols == <<"t", "a", "b", "c">>

\* a well-formed dataset: a binary target, two numeric columns, a text column
DefaultCell(c, i) ==
    CASE c = "t" -> IF i % 2 = 1 THEN "0" ELSE "1"
      [] c = "a" -> IF i % 2 = 1 THEN "1" ELSE "2"
      [] c = "b" -> "0"
      [] c = "c" -> "x"

Frame(cols, rows) ==
    [cols |-> cols, val |-> [c \in Range(cols) |-> [i \in 1..rows |-> DefaultCell(c, i)]]]

DefaultData == Frame(DefaultCols, MaxRows)

\* the default dataset with one column holding any cells
VariedData ==
    {[cols |-> DefaultCols, val |-> [Frame(DefaultCols, Len(s)).val EXCEPT ![c] = s]] :
        c \in {"t", "a", "c"}, s \in SeqsUpTo(Cells, MaxRows)}

\* the default dataset without one of its columns
DroppedData ==
    {Frame(Filter(DefaultCols, Names \ {c}), MaxRows) : c \in Names}

\* the default dataset with its columns in any order, any of them dropped
ReorderedData ==
    {Frame(cols, MaxRows) : cols \in {s \in SeqsUpTo(Names, Cardinality(Names)) : NoDup(s)}}

DefaultSchema == MkSchema("t", <<"a", "b">>, <<"c">>)

\* schema files as a user may edit them: repeated names and the target among
\* the features included
Schemas ==
    {MkSchema("t", n, c) : n \in SeqsUpTo({"a", "b", "t"}, MaxList),
                           c \in SeqsUpTo({"c", "b"}, MaxList)}

\* DEFAULT_NUMERIC_COLUMNS, DEFAULT_CATEGORICAL_COLUMNS of the older script
TitanicSchema ==
    MkSchema("Survived", <<"Pclass", "Age", "SibSp", "Parch", "Fare">>, <<"Sex", "Embarked">>)

\* the versions a converter of the installed libraries stamps on a fragment
IrVersions == {8, 9}

OpsetIds ==
    {make_opsetid("", v) : v \in {TargetOpset - 1, TargetOpset}}
    \cup {make_opsetid("ai.onnx.ml", v) : v \in {1, 2}}

OpsetLists ==
    {s \in SeqsUpTo(OpsetIds, 2) : \A i, j \in DOMAIN s : s[i].domain = s[j].domain => i = j}

FragVersions == [ir : IrVersions, opset : OpsetLists]

DefaultVersions ==
    [ir |-> 9, opset |-> <<make_opsetid("", TargetOpset), make_opsetid("ai.onnx.ml", 1)>>]

DefaultEnv == [pre |-> DefaultVersions, lgb |-> DefaultVersions]

Envs == [pre : FragVersions, lgb : FragVersions]

DefaultArgs == [schema |-> "schema.yaml", target |-> "t", exclude |-> {}]

(* ------------------------------- state -------------------------------- *)
VARIABLES
    script,            \* the script that runs
    args,              \* its command line: --schema, --target, --exclude
    data,              \* the CSV file
    schema_file,       \* the schema the YAML file holds
    env,               \* the versions the installed converters emit
    pc,                \* where main is
    err,               \* the exception that ended the run
    schema,            \* main's schema
    X, y, numeric_cols, categorical_cols,   \* what load_and_preprocess returned
    model,             \* the fitted pipeline
    preprocess_onnx, lgb_onnx, merged_model,
    dirs, files        \* the directories and files the run has written

vars == <<script, args, data, schema_file, env, pc, err, schema, X, y, numeric_cols,
          categorical_cols, model, preprocess_onnx, lgb_onnx, merged_model, dirs, files>>

inputs == <<script, args, data, schema_file, env>>

NoSchema == MkSchema("", <<>>, <<>>)

NoX == [columns |-> <<>>, num |-> <<>>, cat |-> <<>>]

NoModel == [fitted |-> FALSE, numeric_cols |-> <<>>, categorical_cols |-> <<>>]

Fresh ==
    /\ pc = "start"
    /\ err = ""
    /\ schema = NoSchema
    /\ X = NoX
    /\ y = <<>>
    /\ numeric_cols = <<>>
    /\ categorical_cols = <<>>
    /\ model = NoModel
    /\ preprocess_onnx = NoFragment
    /\ lgb_onnx = NoFragment
    /\ merged_model = NoFragment
    /\ dirs = {}
    /\ files = {}

\* a training run on any dataset of one varied column
InitData ==
    /\ script \in Scripts
    /\ args = DefaultArgs
    /\ data \in VariedData
    /\ schema_file = DefaultSchema
    /\ env = DefaultEnv

\* a training run under any schema, on the dataset or one lacking a column
InitSchema ==
    /\ script \in Scripts
    /\ args \in {DefaultArgs, [DefaultArgs EXCEPT !.schema = "None"]}
    /\ data \in {DefaultData} \cup DroppedData
    /\ schema_file \in Schemas
    /\ env = DefaultEnv

\* a training run with any converter versions
InitEnv ==
    /\ script \in Scripts
    /\ args = DefaultArgs
    /\ data = DefaultData
    /\ schema_file = DefaultSchema
    /\ env \in Envs

\* a run of generate_schema.py
InitInfer ==
    /\ script = "generate_schema"
    /\ args \in [schema : {"schema.yaml"}, target : Names \cup {"zz"},
                 exclude : SUBSET {"a", "c", "zz"}]
    /\ data \in VariedData \cup ReorderedData
    /\ schema_file = NoSchema
    /\ env = DefaultEnv

Init == (InitData \/ InitSchema \/ InitEnv \/ InitInfer) /\ Fresh

(* ------------------------------ actions ------------------------------- *)
Abort(e) ==
    /\ pc' = "aborted"
    /\ err' = e

\* parse_args: --schema is required by the two src/ scripts
ParseArgs ==
    /\ pc = "start"
    /\ IF script \in ResolvingScripts /\ args.schema = "None"
       THEN Abort("SystemExit: --schema is required")
       ELSE pc' = "parsed" /\ err' = err
    /\ UNCHANGED <<inputs, schema, X, y, numeric_cols, categorical_cols, model,
                   preprocess_onnx, lgb_onnx, merged_model, dirs, files>>

\* load_schema: the older script falls back to the Titanic columns
load_schema(schema_path) ==
    IF schema_path = "None" THEN TitanicSchema ELSE schema_file

LoadSchema ==
    /\ pc = "parsed"
    /\ script \in Scripts
    /\ schema' = load_schema(args.schema)
    /\ pc' = "schema_loaded"
    /\ UNCHANGED <<inputs, err, X, y, numeric_cols, categorical_cols, model,
                   preprocess_onnx, lgb_onnx, merged_model, dirs, files>>

\* as main would be were the exception of load_and_preprocess swallowed
LoadAndPreprocessSwallowed ==
    /\ pc = "schema_loaded"
    /\ pc' = "preprocessed"
    /\ UNCHANGED <<inputs, err, schema, X, y, numeric_cols, categorical_cols, model,
                   preprocess_onnx, lgb_onnx, merged_model, dirs, files>>

LoadAndPreprocess ==
    /\ pc = "schema_loaded"
    /\ LET r == load_and_preprocess(script, data, schema)
       IN IF r.ok
          THEN /\ X' = [columns |-> r.columns, num |-> r.num, cat |-> r.cat]
               /\ y' = r.y
               /\ numeric_cols' = r.numeric_cols
               /\ categorical_cols' = r.categorical_cols
               /\ pc' = "preprocessed"
               /\ err' = err
          ELSE /\ Abort(r.err)
               /\ UNCHANGED <<X, y, numeric_cols, categorical_cols>>
    /\ UNCHANGED <<inputs, schema, model, preprocess_onnx, lgb_onnx, merged_model,
                   dirs, files>>

\* train_model: the fit is the learning library's
TrainModel ==
    /\ pc = "preprocessed"
    /\ model' = [fitted |-> TRUE, numeric_cols |-> numeric_cols,
                 categorical_cols |-> categorical_cols]
    /\ pc' = "trained"
    /\ UNCHANGED <<inputs, err, schema, X, y, numeric_cols, categorical_cols,
                   preprocess_onnx, lgb_onnx, merged_model, dirs, files>>

\* as main would be were the output directory made before the fit
OnnxMkdirBeforeFit ==
    /\ pc = "preprocessed"
    /\ "onnx_dir" \notin dirs
    /\ dirs' = dirs \cup {"onnx_dir"}
    /\ UNCHANGED <<inputs, pc, err, schema, X, y, numeric_cols, categorical_cols, model,
                   preprocess_onnx, lgb_onnx, merged_model, files>>

\* export_onnx: output_path.parent.mkdir(parents=True, exist_ok=True)
OnnxMkdir ==
    /\ pc = "trained"
    /\ dirs' = dirs \cup {"onnx_dir"}
    /\ pc' = "onnx_dir"
    /\ UNCHANGED <<inputs, err, schema, X, y, numeric_cols, categorical_cols, model,
                   preprocess_onnx, lgb_onnx, merged_model, files>>

\* export_onnx of train_lightgbm.py: the preprocessing fragment
ConvertPreprocess ==
    /\ pc = "onnx_dir"
    /\ script = "lightgbm"
    /\ preprocess_onnx' =
           convert_preprocess(InitialType(numeric_cols, categorical_cols), env.pre)
    /\ pc' = "pre_converted"
    /\ UNCHANGED <<inputs, err, schema, X, y, numeric_cols, categorical_cols, model,
                   lgb_onnx, merged_model, dirs, files>>

\* export_onnx of train_lightgbm.py: the model fragment
ConvertLightgbm ==
    /\ pc = "pre_converted"
    /\ lgb_onnx' = convert_lightgbm(lgb_input_name, env.lgb)
    /\ pc' = "lgb_converted"
    /\ UNCHANGED <<inputs, err, schema, X, y, numeric_cols, categorical_cols, model,
                   preprocess_onnx, merged_model, dirs, files>>

\* max_ir, set on both fragments
ReconcileIr ==
    /\ pc = "lgb_converted"
    /\ LET max_ir == MaxIr(preprocess_onnx, lgb_onnx)
       IN /\ preprocess_onnx' = [preprocess_onnx EXCEPT !.ir_version = max_ir]
          /\ lgb_onnx' = [lgb_onnx EXCEPT !.ir_version = max_ir]
    /\ pc' = "ir_synced"
    /\ UNCHANGED <<inputs, err, schema, X, y, numeric_cols, categorical_cols, model,
                   merged_model, dirs, files>>

\* sync_default_opset(preprocess_onnx, lgb_onnx)
SyncDefaultOpset ==
    /\ pc = "ir_synced"
    /\ LET v == default_domain_version(preprocess_onnx, lgb_onnx)
       IN /\ preprocess_onnx' =
                 [preprocess_onnx EXCEPT
                     !.opset_import = set_version(preprocess_onnx.opset_import, "", v)]
          /\ lgb_onnx' =
                 [lgb_onnx EXCEPT !.opset_import = set_version(lgb_onnx.opset_import, "", v)]
    /\ pc' = "opset_synced"
    /\ UNCHANGED <<inputs, err, schema, X, y, numeric_cols, categorical_cols, model,
                   merged_model, dirs, files>>

\* merged_model = merge_models(preprocess_onnx, lgb_onnx, io_map=...)
MergeModels ==
    /\ pc = "opset_synced"
    /\ IF Mergeable(preprocess_onnx, lgb_onnx)
       THEN /\ merged_model' =
                   merge_models(preprocess_onnx, lgb_onnx,
                                IoMap(preprocess_onnx, lgb_input_name))
            /\ pc' = "merged"
            /\ err' = err
       ELSE /\ Abort("ValueError: merge_models")
            /\ UNCHANGED merged_model
    /\ UNCHANGED <<inputs, schema, X, y, numeric_cols, categorical_cols, model,
                   preprocess_onnx, lgb_onnx, dirs, files>>

\* export_onnx of the random-forest scripts: the whole pipeline in one graph
ConvertSklearn ==
    /\ pc = "onnx_dir"
    /\ script \in Scripts \ {"lightgbm"}
    /\ merged_model' =
           convert_sklearn(InitialType(numeric_cols, categorical_cols), env.pre)
    /\ pc' = "merged"
    /\ UNCHANGED <<inputs, err, schema, X, y, numeric_cols, categorical_cols, model,
                   preprocess_onnx, lgb_onnx, dirs, files>>

\* output_path.write_bytes(merged_model.SerializeToString())
WriteOnnx ==
    /\ pc = "merged"
    /\ files' = files \cup {"onnx"}
    /\ pc' = "onnx_written"
    /\ UNCHANGED <<inputs, err, schema, X, y, numeric_cols, categorical_cols, model,
                   preprocess_onnx, lgb_onnx, merged_model, dirs>>

\* export_pmml: output_path.parent.mkdir(parents=True, exist_ok=True)
PmmlMkdir ==
    /\ pc = "onnx_written"
    /\ dirs' = dirs \cup {"pmml_dir"}
    /\ pc' = "pmml_dir"
    /\ UNCHANGED <<inputs, err, schema, X, y, numeric_cols, categorical_cols, model,
                   preprocess_onnx, lgb_onnx, merged_model, files>>

\* export_pmml: sklearn2pmml(pmml_pipeline, str(output_path), with_repr=True)
WritePmml ==
    /\ pc = "pmml_dir"
    /\ files' = files \cup {"pmml"}
    /\ pc' = "pmml_written"
    /\ UNCHANGED <<inputs, err, schema, X, y, numeric_cols, categorical_cols, model,
                   preprocess_onnx, lgb_onnx, merged_model, dirs>>

\* main: the feature order is printed and the run ends
PrintFeatureOrder ==
    /\ pc = "pmml_written"
    /\ pc' = "done"
    /\ UNCHANGED <<inputs, err, schema, X, y, numeric_cols, categorical_cols, model,
                   preprocess_onnx, lgb_onnx, merged_model, dirs, files>>

\* generate_schema.py main: schema = infer_schema(args.csv, args.target, args.exclude)
InferSchema ==
    /\ pc = "parsed"
    /\ script = "generate_schema"
    /\ schema' = infer_schema(data, args.target, args.exclude)
    /\ pc' = "inferred"
    /\ UNCHANGED <<inputs, err, X, y, numeric_cols, categorical_cols, model,
                   preprocess_onnx, lgb_onnx, merged_model, dirs, files>>

\* generate_schema.py main: out_path.write_text(yaml.safe_dump(schema))
WriteSchema ==
    /\ pc = "inferred"
    /\ files' = files \cup {"schema"}
    /\ pc' = "done"
    /\ UNCHANGED <<inputs, err, schema, X, y, numeric_cols, categorical_cols, model,
                   preprocess_onnx, lgb_onnx, merged_model, dirs>>

\* the steps that read or write a file, or call into a library that may
\* raise: the schema and CSV reads, the fit, mkdir, the converters, the
\* merge, the writes
Fallible ==
    {"parsed", "schema_loaded", "preprocessed", "trained", "onnx_dir", "pre_converted",
     "opset_synced", "merged", "onnx_written", "pmml_dir", "inferred"}

\* any such step raises; nothing in main catches it
ExternalFailure ==
    /\ pc \in Fallible
    /\ Abort("raised at " \o pc)
    /\ UNCHANGED <<inputs, schema, X, y, numeric_cols, categorical_cols, model,
                   preprocess_onnx, lgb_onnx, merged_model, dirs, files>>

Next ==
    \/ ParseArgs
    \/ LoadSchema
    \/ LoadAndPreprocess
    \/ TrainModel
    \/ OnnxMkdir
    \/ ConvertPreprocess
    \/ ConvertLightgbm
    \/ ReconcileIr
    \/ SyncDefaultOpset
    \/ MergeModels
    \/ ConvertSklearn
    \/ WriteOnnx
    \/ PmmlMkdir
    \/ WritePmml
    \/ PrintFeatureOrder
    \/ InferSchema
    \/ WriteSchema
    \/ ExternalFailure

Spec == Init /\ [][Next]_vars

(* ------------------------------ properties ---------------------------- *)
\* main's positions after load_and_preprocess has returned
PostPreprocess ==
    {"preprocessed", "trained", "onnx_dir", "pre_converted", "lgb_converted",
     "ir_synced", "opset_synced", "merged", "onnx_written", "pmml_dir", "pmml_written",
     "done"}

\* load_and_preprocess has returned its four values in this run
Returned ==
    /\ script \in Scripts
    /\ \/ pc \in PostPreprocess
       \/ /\ pc = "aborted"
          /\ err \in {"raised at " \o p : p \in PostPreprocess} \cup {"ValueError: merge_models"}

\* C1: whenever load_and_preprocess returns, the feature table's columns are
\* the names of schema.numeric followed by the names of schema.categorical,
\* in schema order, the target is not one of them, every column holds data,
\* and numeric_cols + categorical_cols is that same list.
C1_FeatureOrder ==
    Returned =>
        /\ X.columns = NamesOf(schema.numeric) \o NamesOf(schema.categorical)
        /\ schema.target \notin Range(X.columns)
        /\ numeric_cols \o categorical_cols = X.columns
        /\ numeric_cols = NamesOf(schema.numeric)
        /\ categorical_cols = NamesOf(schema.categorical)
        /\ DOMAIN X.num \cup DOMAIN X.cat = Range(X.columns)

\* a schema whose numeric order differs from the dataset's column order
C1_Witness ==
    /\ pc = "preprocessed"
    /\ X.columns = <<"b", "a", "c">>
    /\ data.cols = DefaultCols

\* C2: a target of more than two distinct non-missing values makes
\* load_and_preprocess fail, in every training script: it never returns.
C2_NonBinaryTargetFails ==
    LET s == load_schema(args.schema)
    IN (/\ script \in Scripts
        /\ s.target \in Range(data.cols)
        /\ Len(Unique(data.val[s.target])) > 2)
       => ~Returned

\* the values of a column before row i, missing ones left out
SeenBefore(cells, i) == {cells[j] : j \in 1..(i - 1)} \ {""}

\* the row at which the value of row i first appears
FirstRow(cells, i) == CHOOSE k \in 1..i : cells[k] = cells[i] /\ cells[i] \notin SeenBefore(cells, k)

\* C3: in the two src/ scripts, a returned target vector is the column
\* itself when its values are among 0 and 1, and otherwise each value's
\* rank of first appearance (0 for the value seen first, 1 for the other).
C3_TargetEncoding ==
    (Returned /\ script \in ResolvingScripts) =>
        LET cells == data.val[schema.target]
        IN /\ Len(y) = Len(cells)
           /\ Cardinality(Range(cells) \ {""}) <= 2
           /\ \A i \in DOMAIN cells :
                 IF Range(cells) \subseteq {"0", "1"}
                 THEN y[i] = NumOf(cells[i])
                 ELSE y[i] = Cardinality(SeenBefore(cells, FirstRow(cells, i)))

\* the larger label comes first and gets 0
C3_Witness ==
    /\ pc = "preprocessed"
    /\ script = "lightgbm"
    /\ data.val["t"] = <<"2", "1", "2">>
    /\ y = <<0, 1, 0>>

\* the observed texts of a column as astype(str) prints them
Observed(cells) == {astype_str(cells)[i] : i \in {j \in DOMAIN cells : cells[j] # ""}}

\* C4: in a returned feature table every missing categorical cell holds the
\* column's most frequent observed value, or "" when the whole column was
\* missing; no missing marker, as text or not, is left.
C4_CategoricalImputed ==
    Returned =>
        \A c \in Range(categorical_cols) : \A i \in DOMAIN data.val[c] :
            LET cells == data.val[c]
                obs == Observed(cells)
                txt == astype_str(cells)
            IN /\ cells[i] # "" => X.cat[c][i] = txt[i]
               /\ (cells[i] = "" /\ obs = {}) => X.cat[c][i] = ""
               /\ (cells[i] = "" /\ obs # {}) =>
                      /\ X.cat[c][i] \in obs
                      /\ \A w \in obs : Count(txt, X.cat[c][i]) >= Count(txt, w)
               /\ obs # {} => X.cat[c][i] \notin {"nan", NA}

\* C5 as stated: a run that aborts has written no artifact and made no
\* output directory, and a training run that ends has written both artifacts.
C5_AllOrNothing ==
    script \in Scripts =>
        /\ pc = "aborted" => (files = {} /\ dirs = {})
        /\ pc = "done" => files = {"onnx", "pmml"}

\* C5 amended: nothing is written and no directory is made before the fit
\* has returned; a run that aborts later may leave the output directories
\* and, when it aborts in export_pmml, the ONNX file, but never the PMML
\* file; a training run that ends has written both artifacts.
C5_ArtifactsOnAbort ==
    script \in Scripts =>
        /\ ~model.fitted => (files = {} /\ dirs = {})
        /\ files \subseteq {"onnx", "pmml"}
        /\ "pmml" \in files => "onnx" \in files
        /\ "onnx" \in files => "onnx_dir" \in dirs
        /\ pc = "aborted" => "pmml" \notin files
        /\ (pc = "aborted" /\ "onnx" \in files) =>
               err \in {"raised at onnx_written", "raised at pmml_dir"}
        /\ pc = "done" => files = {"onnx", "pmml"}

\* export_pmml raised after export_onnx had written its file
C5_Witness ==
    /\ pc = "aborted"
    /\ err = "raised at pmml_dir"
    /\ files = {"onnx"}
    /\ dirs = {"onnx_dir", "pmml_dir"}

\* a column the schema names is not a column of the dataset
MissingColumn(s, df) ==
    ~(Range(<<s.target>> \o NamesOf(s.numeric) \o NamesOf(s.categorical))
          \subseteq Range(df.cols))

\* C6: when the dataset lacks a column the schema names, load_and_preprocess
\* returns nothing and the run never reaches train_model or an export step.
C6_MissingColumnAborts ==
    (script \in Scripts /\ MissingColumn(load_schema(args.schema), data)) =>
        /\ pc \in {"start", "parsed", "schema_loaded", "aborted"}
        /\ pc = "aborted" =>
               err \in {"KeyError", "raised at parsed", "raised at schema_loaded",
                        "SystemExit: --schema is required"}
        /\ X = NoX /\ y = <<>> /\ numeric_cols = <<>> /\ categorical_cols = <<>>
        /\ model = NoModel
        /\ preprocess_onnx = NoFragment /\ lgb_onnx = NoFragment
        /\ merged_model = NoFragment
        /\ dirs = {} /\ files = {}

\* a numeric feature of the schema is not in the dataset
C6_Witness ==
    /\ pc = "aborted"
    /\ err = "KeyError"
    /\ script = "lightgbm"
    /\ "a" \notin Range(data.cols)
    /\ "a" \in Range(NamesOf(schema.numeric))

\* C7: when export_onnx calls merge_models the two fragments have one IR
\* version and, for every domain both import, one opset version.
C7_VersionsEqualAtMerge ==
    pc = "opset_synced" =>
        /\ preprocess_onnx.ir_version = lgb_onnx.ir_version
        /\ \A d \in DomainsOf(preprocess_onnx) \cap DomainsOf(lgb_onnx) :
               get_version(preprocess_onnx.opset_import, d)
                   = get_version(lgb_onnx.opset_import, d)

\* export_onnx of train_lightgbm.py has merged its two fragments
Merged == script = "lightgbm" /\ merged_model # NoFragment

\* C8: the merged graph's inputs are the preprocessing fragment's, one per
\* feature column, numeric first then categorical in schema order; its
\* outputs are the model fragment's; the preprocessing output is wired to the
\* model's input name, and neither name is an input or output of the graph.
C8_MergedInterface ==
    Merged =>
        /\ merged_model.inputs = preprocess_onnx.inputs
        /\ NamesOf(merged_model.inputs)
               = NamesOf(schema.numeric) \o NamesOf(schema.categorical)
        /\ \A k \in DOMAIN merged_model.inputs :
               merged_model.inputs[k].type =
                   IF k <= Len(schema.numeric) THEN "float" ELSE "string"
        /\ merged_model.outputs = lgb_onnx.outputs
        /\ merged_model.io_map
               = <<[from |-> preprocess_onnx.outputs[1], to |-> lgb_onnx.inputs[1].name]>>
        /\ Len(preprocess_onnx.outputs) = 1 /\ Len(lgb_onnx.inputs) = 1
        /\ lgb_onnx.inputs[1].name = lgb_input_name
        /\ {preprocess_onnx.outputs[1], lgb_input_name}
               \cap (Range(NamesOf(merged_model.inputs)) \cup Range(merged_model.outputs)) = {}

\* a schema of two numeric columns, out of dataset order, and a categorical
C8_Witness ==
    /\ script = "lightgbm"
    /\ pc = "merged"
    /\ NamesOf(merged_model.inputs) = <<"b", "a", "c">>
    /\ merged_model.outputs = ModelOutputs

\* infer_schema has returned in this run of generate_schema.py
Inferred ==
    /\ script = "generate_schema"
    /\ pc \in {"inferred", "done"} \/ (pc = "aborted" /\ err = "raised at inferred")

\* the place of a column in the dataset
Pos(df, c) == CHOOSE k \in DOMAIN df.cols : df.cols[k] = c

\* a list of names keeps the dataset's column order and repeats none
InDataOrder(df, names) ==
    /\ Range(names) \subseteq Range(df.cols)
    /\ \A i, j \in DOMAIN names : i < j => Pos(df, names[i]) < Pos(df, names[j])

\* C9: the inferred schema has the given target; its two lists hold neither
\* the target nor an excluded column, hold every other column of the dataset
\* once, in one list only, in dataset order; numeric entries are
\* impute=median, categorical ones impute=most_frequent and encode=onehot.
C9_InferredSchema ==
    Inferred =>
        LET num == NamesOf(schema.numeric)
            cat == NamesOf(schema.categorical)
        IN /\ schema.target = args.target
           /\ (Range(num) \cup Range(cat)) \cap ({args.target} \cup args.exclude) = {}
           /\ Range(num) \cup Range(cat) = Range(data.cols) \ ({args.target} \cup args.exclude)
           /\ Range(num) \cap Range(cat) = {}
           /\ InDataOrder(data, num) /\ InDataOrder(data, cat)
           /\ \A k \in DOMAIN schema.numeric :
                  schema.numeric[k] = [name |-> num[k], impute |-> "median"]
           /\ \A k \in DOMAIN schema.categorical :
                  schema.categorical[k] =
                      [name |-> cat[k], impute |-> "most_frequent", encode |-> "onehot"]

\* a target and an excluded column of the dataset are left out, the other
\* two columns keep their order, which is not the default one
C9_Witness ==
    /\ script = "generate_schema"
    /\ pc = "inferred"
    /\ data.cols = <<"c", "b", "t", "a">>
    /\ args.target = "t"
    /\ args.exclude = {"c", "zz"}
    /\ NamesOf(schema.numeric) = <<"b", "a">>
    /\ schema.categorical = <<>>

\* C10: the IR reconciliation sets both fragments' IR version to the larger
\* of the two versions they had before it, and no step lowers a fragment's
\* IR version.
C10_IrReconciled ==
    [][/\ pc = "lgb_converted" =>
              /\ preprocess_onnx'.ir_version =
                     Max(preprocess_onnx.ir_version, lgb_onnx.ir_version)
              /\ lgb_onnx'.ir_version =
                     Max(preprocess_onnx.ir_version, lgb_onnx.ir_version)
       /\ preprocess_onnx'.ir_version >= preprocess_onnx.ir_version
       /\ lgb_onnx'.ir_version >= lgb_onnx.ir_version]_vars

\* the preprocessing fragment's lower IR version has been raised
C10_Witness ==
    /\ pc = "ir_synced"
    /\ env.pre.ir < env.lgb.ir
    /\ preprocess_onnx.ir_version = env.lgb.ir
    /\ lgb_onnx.ir_version = env.lgb.ir

\* the records of a fragment for the default domain
DefaultRecords(opset_import) ==
    {k \in DOMAIN opset_import : opset_import[k].domain = ""}

\* the default-domain version a fragment declares, 0 when it declares none
DeclaredDefault(opset_import) ==
    IF DefaultRecords(opset_import) = {} THEN 0
    ELSE opset_import[CHOOSE k \in DefaultRecords(opset_import) : TRUE].version

\* what sync_default_opset is to leave in a fragment that held before, with
\* top the larger of the two declared default-domain versions
DefaultSynced(before, after, top) ==
    /\ DefaultRecords(after) # {}
    /\ \A k \in DefaultRecords(after) : after[k].version = top
    /\ Cardinality(DefaultRecords(after)) =
           IF DefaultRecords(before) = {} THEN 1
           ELSE Cardinality(DefaultRecords(before))
    /\ Len(after) = Len(before) + (IF DefaultRecords(before) = {} THEN 1 ELSE 0)

\* C11: sync_default_opset leaves in each of the two fragments a record for
\* the default domain whose version is the larger of the versions the two
\* declared before the call, 0 standing for none; a fragment that had no such
\* record gains exactly one.
C11_DefaultOpsetSynced ==
    [][pc = "ir_synced" =>
          LET top == Max(DeclaredDefault(preprocess_onnx.opset_import),
                         DeclaredDefault(lgb_onnx.opset_import))
          IN /\ DefaultSynced(preprocess_onnx.opset_import,
                              preprocess_onnx'.opset_import, top)
             /\ DefaultSynced(lgb_onnx.opset_import, lgb_onnx'.opset_import, top)]_vars

\* the preprocessing fragment had no default-domain record and has gained
\* one, at the model fragment's version
C11_Witness ==
    /\ pc = "opset_synced"
    /\ DefaultRecords(env.pre.opset) = {}
    /\ env.pre.opset # <<>>
    /\ DeclaredDefault(env.lgb.opset) = TargetOpset
    /\ preprocess_onnx.opset_import = Append(env.pre.opset, make_opsetid("", TargetOpset))
    /\ lgb_onnx.opset_import = env.lgb.opset

\* the records of a fragment for named domains, in their order
NamedRecords(opset_import) ==
    Filter(opset_import, {o \in Range(opset_import) : o.domain # ""})

\* the two fragments import one named domain at different versions
NamedConflict(a, b) ==
    \E i \in DOMAIN a, j \in DOMAIN b :
        /\ a[i].domain # ""
        /\ a[i].domain = b[j].domain
        /\ a[i].version # b[j].version

\* C12: sync_default_opset adds, removes and alters no record of a named
\* domain in either fragment, and it always hands over to the merge call,
\* without an error, also when the fragments import a named domain at
\* different versions.
C12_NamedDomainsUntouched ==
    [][pc = "ir_synced" =>
          /\ NamedRecords(preprocess_onnx'.opset_import)
                 = NamedRecords(preprocess_onnx.opset_import)
          /\ NamedRecords(lgb_onnx'.opset_import) = NamedRecords(lgb_onnx.opset_import)
          /\ pc' = "opset_synced"
          /\ err' = ""
          /\ NamedConflict(preprocess_onnx'.opset_import, lgb_onnx'.opset_import)
                 = NamedConflict(preprocess_onnx.opset_import, lgb_onnx.opset_import)]_vars

\* the run stands at the merge call with ai.onnx.ml at two versions, each
\* fragment's named record as its converter wrote it
C12_Witness ==
    /\ pc = "opset_synced"
    /\ err = ""
    /\ NamedConflict(preprocess_onnx.opset_import, lgb_onnx.opset_import)
    /\ NamedRecords(preprocess_onnx.opset_import) = NamedRecords(env.pre.opset)
    /\ NamedRecords(lgb_onnx.opset_import) = NamedRecords(env.lgb.opset)
    /\ Head(env.pre.opset).domain # ""

====
